---- MODULE Spec2Model ----
(***************************************************************************)
(* Control logic of tuidal (src/src/tuidal/tuidal.py): the PlayerWidget    *)
(* (track list, cursor, repeat policy, playback state, progress timer),    *)
(* the mpv device it drives, and the TrackSelection view that feeds it.    *)
(*                                                                         *)
(* A handler is one atomic action.  Its body is a composition of steps on  *)
(* a context record c = [w, p, raised, play_called, load]:                 *)
(*   w            the PlayerWidget's fields                                *)
(*   p            the mpv device's properties                              *)
(*   raised       the exception that left the handler ("none" if none)     *)
(*   play_called  PlayerWidget.play() was entered by the handler           *)
(*   load         the track handed to player.play() (<<>> if none)         *)
(* A Python Optional is a sequence of length <= 1: <<>> is None.           *)
(*                                                                         *)
(* Session (src/src/tuidal/session.py) and main() come first: the player   *)
(* handlers run only while the application started by main() is running.   *)
(*                                                                         *)
(* MainScreen's search and lists (catalog) and the screens of the          *)
(* screen-based variant src/tuidal.py (screen_stack) have specifications   *)
(* of their own: SpecBrowse, SpecScreens.  SpecAbort makes the OAuth wait  *)
(* a state, SpecRace lets a skip key wait for its handler (key_pending).   *)
(***************************************************************************)
EXTENDS Integers, Sequences, FiniteSets, TLC

VARIABLES player_widget, player, track_selection, last, next_run,
          tick_pending, session, main,
          key_pending, catalog, screen_stack, nav_history

vars == <<player_widget, player, track_selection, last, next_run,
          tick_pending, session, main,
          key_pending, catalog, screen_stack, nav_history>>

\* The state of Session and of main().
launchVars == <<session, main>>

\* The catalog views of MainScreen, and the screens of the screen-based
\* variant (src/tuidal.py) with the frames its selections have replaced.
browseVars == <<catalog, screen_stack, nav_history>>

\* What main() and the handlers of the PlayerWidget leave alone.
sideVars == <<key_pending, catalog, screen_stack, nav_history>>

\* Longest track list a catalog query returns in the model.
MaxTracks == 3

\* PlayerWidget.Repeat and PlayerWidget.State
Repeat == {"NO", "TRACK", "TRACK_LIST"}

State == {"PLAYING", "PAUSED", "STOPPED"}

\* What the device does with one play(): it starts the stream, resolving the
\* stream url raises, or loading / waiting until playing raises.
PlayOutcomes == {"ok", "url_error", "start_error"}

\* player.percent_pos, sampled.
PercentPos == {0, 50, 100}

\* The tracks of an album with n tracks, in display order.
AlbumTracks(n) == [i \in 1..n |-> i]

----------------------------------------------------------------------------
(* PlayerWidget                                                            *)

\* tracks[current_track_index] with Python's indexing: a negative index
\* counts from the end, IndexError becomes None.
current_track(w) ==
    LET n == Len(w.tracks)
        i == w.current_track_index
    IN  IF 0 <= i /\ i < n THEN <<w.tracks[i + 1]>>
        ELSE IF -n <= i /\ i < 0 THEN <<w.tracks[n + i + 1]>>
        ELSE <<>>

set_tracks(w, tracks) ==
    [w EXCEPT !.tracks = tracks, !.current_track_index = 0]

track_finished(p) == p.idle_active \/ p.percent_pos >= 100

is_playing(w) == w.player_state = "PLAYING"

\* Variants of the advance check with one operand dropped.
ContinueWhenFinished(w, p) == track_finished(p)

ContinueWhenPlaying(w, p) == is_playing(w)

continue_with_next_track(w, p) == is_playing(w) /\ track_finished(p)

\* start_timer: a new timer replaces the one held so far, which keeps its
\* own running flag, and the new one is resumed.
start_timer(w) ==
    IF w.player_state = "PLAYING"
    THEN [w EXCEPT !.stale_timers = @ + (IF w.timer_running THEN 1 ELSE 0),
                   !.timer_running = TRUE]
    ELSE w

\* The device after a load that started / that failed.
DeviceStarted(p, trk) ==
    [p EXCEPT !.loaded = trk, !.idle_active = FALSE, !.percent_pos = 0]

DeviceFailed(p) ==
    [p EXCEPT !.loaded = <<>>, !.idle_active = TRUE, !.percent_pos = 0]

\* Variant of the first statement of play(): the timer held so far is left
\* as it is.
PlayTimerLeftRunning(w) == w

PlayTimerPaused(w) == [w EXCEPT !.timer_running = FALSE]

\* Variant of the end of play(): the state becomes PLAYING and no timer is
\* started.
PlayStartedWithoutTimer(w) == [w EXCEPT !.player_state = "PLAYING"]

PlayStarted(w) == start_timer([w EXCEPT !.player_state = "PLAYING"])

play(c, outcome) ==
    IF c.raised # "none" THEN c
    ELSE
    LET c1  == [c EXCEPT !.play_called = TRUE, !.w = PlayTimerPaused(c.w)]
        cur == current_track(c1.w)
    IN  IF cur = <<>>
        THEN [c1 EXCEPT !.raised = "AttributeError"]
        ELSE IF outcome = "url_error"
        THEN [c1 EXCEPT !.raised = "PlayerError"]
        ELSE IF outcome = "start_error"
        THEN [c1 EXCEPT !.raised = "PlayerError", !.load = cur,
                        !.p = DeviceFailed(c1.p)]
        ELSE [c1 EXCEPT !.load = cur, !.p = DeviceStarted(c1.p, cur),
                        !.w = PlayStarted(c1.w)]

\* Variants of the cursor arithmetic with one slip each.
NextTrackIndexNoWrap(repeat, index, n) ==
    CASE repeat = "NO" -> index + 1
      [] repeat = "TRACK" -> index
      [] repeat = "TRACK_LIST" -> index + 1

NextTrackIndexTrackAdvances(repeat, index, n) ==
    CASE repeat = "NO" -> index + 1
      [] repeat = "TRACK" -> index + 1
      [] repeat = "TRACK_LIST" -> IF n = 0 THEN index + 1 ELSE (index + 1) % n

PrevTrackIndexNoWrap(repeat, index, n) ==
    CASE repeat = "NO" -> index - 1
      [] repeat = "TRACK" -> index
      [] repeat = "TRACK_LIST" -> index - 1

\* The cursor after the match statement of action_next_track.  With an empty
\* list the TRACK_LIST branch has added 1 when the modulo raises.
NextTrackIndex(repeat, index, n) ==
    CASE repeat = "NO" -> index + 1
      [] repeat = "TRACK" -> index
      [] repeat = "TRACK_LIST" -> IF n = 0 THEN index + 1 ELSE (index + 1) % n

PrevTrackIndex(repeat, index, n) ==
    CASE repeat = "NO" -> index - 1
      [] repeat = "TRACK" -> index
      [] repeat = "TRACK_LIST" -> IF n = 0 THEN index - 1 ELSE (index - 1) % n

\* index % len(tracks) with an empty list
ModuloRaises(w) == w.repeat = "TRACK_LIST" /\ Len(w.tracks) = 0

MoveCursor(c, index) ==
    [c EXCEPT !.w.current_track_index = index,
              !.raised = IF ModuloRaises(c.w) THEN "ZeroDivisionError" ELSE "none"]

action_next_track(c, outcome) ==
    play(MoveCursor(c, NextTrackIndex(c.w.repeat, c.w.current_track_index,
                                      Len(c.w.tracks))),
         outcome)

action_prev_track(c, outcome) ==
    play(MoveCursor(c, PrevTrackIndex(c.w.repeat, c.w.current_track_index,
                                      Len(c.w.tracks))),
         outcome)

pause(c, flag) ==
    [c EXCEPT !.p.pause = flag,
              !.w.timer_running = ~flag,
              !.w.player_state = IF flag THEN "PAUSED" ELSE "PLAYING"]

action_play_pause(c) ==
    IF c.w.player_state = "PLAYING" THEN pause(c, TRUE) ELSE pause(c, FALSE)

make_progress(c, outcome) ==
    IF continue_with_next_track(c.w, c.p)
    THEN action_next_track(c, outcome)
    ELSE c

----------------------------------------------------------------------------
(* TrackSelection                                                          *)

\* The displayed tracks from the highlighted one on; [] when nothing is
\* highlighted.
\* Variant of get_tracks_from_highlighted_on: the whole displayed list.
AllDisplayedTracks(ts) == ts.tracks

get_tracks_from_highlighted_on(ts) ==
    IF ts.highlighted = <<>> THEN <<>>
    ELSE SubSeq(ts.tracks, ts.highlighted[1] + 1, Len(ts.tracks))

action_select(c, ts, outcome) ==
    play([c EXCEPT !.w = set_tracks(c.w, get_tracks_from_highlighted_on(ts))],
         outcome)

\* TrackSelection.set_tracks followed by focus_list: the option list is
\* rebuilt and its first entry, if any, is highlighted.
display_tracks(tracks) ==
    [tracks |-> tracks,
     highlighted |-> IF Len(tracks) = 0 THEN <<>> ELSE <<0>>]

----------------------------------------------------------------------------
(* Catalog                                                                 *)
(* The provider's answers are the environment.  A query is a function of   *)
(* what the provider would find and of how the call ends; it yields        *)
(* [result, raised]: the list returned and the exception that left the     *)
(* query ("none" if none).                                                 *)

\* Most artists an artist search finds in the model.
MaxArtists == 2

Artists == 1..MaxArtists

\* A provider call returns, or raises tidalapi's ObjectNotFound, a
\* ValueError, or a transport error of the http layer.
ProviderOutcomes == {"ok", "ObjectNotFound", "ValueError", "ConnectionError"}

\* The artists a search finds, in the order returned.
ArtistsFound(n) == [i \in 1..n |-> i]

\* artist.get_albums(): the artist's own album, an album listed for the
\* artist whose primary artist is another one, and an album without artist.
AlbumsOf(a) ==
    << [of |-> a, kind |-> "own"],
       [of |-> a, kind |-> "joint"],
       [of |-> a, kind |-> "compilation"] >>

\* album.artist
album_artist(album) ==
    CASE album.kind = "own" -> <<album.of>>
      [] album.kind = "joint" -> <<(album.of % MaxArtists) + 1>>
      [] OTHER -> <<>>

\* album.tracks()
TracksOf(album) == AlbumTracks(IF album.kind = "own" THEN MaxTracks ELSE 1)

\* What a search by query string may return as albums.
AlbumResults == {<<>>} \cup {AlbumsOf(a) : a \in Artists}

\* try: <provider call> except <caught>: return []
Guarded(found, po, caught) ==
    IF po = "ok" THEN [result |-> found, raised |-> "none"]
    ELSE IF po \in caught THEN [result |-> <<>>, raised |-> "none"]
    ELSE [result |-> <<>>, raised |-> po]

\* ArtistSearch.search_artists: except ValueError
search_artists(found, po) == Guarded(found, po, {"ValueError"})

\* AlbumSelection.search_albums: except ObjectNotFound
search_albums(found, po) == Guarded(found, po, {"ObjectNotFound"})

\* TrackSelection.search_tracks: except Exception
search_tracks(found, po) == Guarded(found, po, ProviderOutcomes)

\* focus_list: the list takes the focus; its first entry is highlighted
\* when none is or when asked to (an empty list has no highlight).
focus_list(list, highlighted, focus_first) ==
    IF Len(list) = 0 THEN <<>>
    ELSE IF highlighted = <<>> \/ focus_first THEN <<0>>
    ELSE highlighted

Lists == {"artists", "albums", "tracks"}

\* b = [cat, ts, raised]: the catalog views, the track view, and the
\* exception that left the handler.
\* MainScreen.handle_search: one provider search fills the three lists (no
\* exception is handled) and the list of the active tab takes the focus.
handle_search(b, po, artists, albums, tracks) ==
    IF po # "ok"
    THEN [b EXCEPT !.raised = po, !.cat.query = "search", !.cat.provider = po]
    ELSE LET tab == b.cat.tab
         IN  [b EXCEPT
                !.cat.query = "search",
                !.cat.provider = po,
                !.cat.focus = tab,
                !.cat.artists = artists,
                !.cat.artist_hl =
                    IF tab = "artists" THEN focus_list(artists, <<>>, TRUE)
                    ELSE <<>>,
                !.cat.albums = albums,
                !.cat.album_hl =
                    IF tab = "albums" THEN focus_list(albums, <<>>, TRUE)
                    ELSE <<>>,
                !.ts = [tracks |-> tracks,
                        highlighted |->
                            IF tab = "tracks"
                            THEN focus_list(tracks, <<>>, TRUE) ELSE <<>>]]

\* MainScreen.action_focus_tab: the tab becomes the active one and its list
\* takes the focus.
action_focus_tab(b, tab) ==
    [b EXCEPT
       !.cat.tab = tab,
       !.cat.focus = tab,
       !.cat.artist_hl =
           IF tab = "artists" THEN focus_list(b.cat.artists, @, FALSE) ELSE @,
       !.cat.album_hl =
           IF tab = "albums" THEN focus_list(b.cat.albums, @, FALSE) ELSE @,
       !.ts.highlighted =
           IF tab = "tracks" THEN focus_list(b.ts.tracks, @, FALSE) ELSE @]

\* get_selected_artist_id / get_selected_album_id: <<>> stands for "".
Selected(list, highlighted) ==
    IF highlighted = <<>> THEN <<>> ELSE <<list[highlighted[1] + 1]>>

\* MainScreen.display_albums_of_selected_artist: AlbumSelection.handle_search
\* (search_albums, set_albums), then focus_list.
display_albums_of_selected_artist(b, po, found) ==
    LET q == search_albums(found, po)
        b1 == [b EXCEPT !.cat.query = "albums", !.cat.provider = po]
    IN  IF q.raised # "none" THEN [b1 EXCEPT !.raised = q.raised]
        ELSE [b1 EXCEPT !.cat.albums = q.result,
                        !.cat.album_hl = focus_list(q.result, <<>>, FALSE),
                        !.cat.focus = "albums",
                        !.cat.tab = "albums"]

\* MainScreen.display_tracks_of_selected_album: TrackSelection.handle_search
\* (search_tracks, set_tracks), then focus_list.
display_tracks_of_selected_album(b, po, found) ==
    LET q == search_tracks(found, po)
        b1 == [b EXCEPT !.cat.query = "tracks", !.cat.provider = po]
    IN  IF q.raised # "none" THEN [b1 EXCEPT !.raised = q.raised]
        ELSE [b1 EXCEPT !.ts = display_tracks(q.result),
                        !.cat.focus = "tracks",
                        !.cat.tab = "tracks"]

----------------------------------------------------------------------------
(* Screens of the screen-based variant (src/tuidal.py)                     *)
(* A screen is [kind, artist, album, list, highlighted, input_focus]; the  *)
(* stack holds the screens the app has pushed, the last one on top.        *)
(* dismiss() pops the top screen and calls the callback given at its push. *)
(* A handler is a function on n = [stack, queries, raised]: the stack, the *)
(* provider calls the handler has made, the exception that left it.        *)

\* ArtistSearch(session): an empty list under an empty search input.
ArtistSearchScreen ==
    [kind |-> "ArtistSearch", artist |-> <<>>, album |-> <<>>,
     list |-> <<>>, highlighted |-> <<>>, input_focus |-> TRUE]

\* AlbumSelection(session, artist_id): __init__ asks the provider for the
\* artist (ObjectNotFound for an id it does not know, such as -1) and
\* on_mount for the artist's albums.
AlbumSelectionScreen(artist_id) ==
    IF artist_id \notin Artists
    THEN [screen |-> <<>>, queries |-> 1, raised |-> "ObjectNotFound"]
    ELSE [screen |-> << [kind |-> "AlbumSelection",
                         artist |-> <<artist_id>>, album |-> <<>>,
                         list |-> AlbumsOf(artist_id),
                         highlighted |->
                             focus_list(AlbumsOf(artist_id), <<>>, TRUE),
                         input_focus |-> FALSE] >>,
          queries |-> 2, raised |-> "none"]

\* TrackSelection(session, album_id): __init__ asks the provider for the
\* album, compose reads album.artist.name (AttributeError when the album has
\* no artist), on_mount asks for the album's tracks.
TrackSelectionScreen(album) ==
    LET screen == [kind |-> "TrackSelection", artist |-> <<>>,
                   album |-> <<album>>, list |-> <<>>,
                   highlighted |-> <<>>, input_focus |-> FALSE]
    IN  IF album_artist(album) = <<>>
        THEN [screen |-> <<screen>>, queries |-> 1,
              raised |-> "AttributeError"]
        ELSE [screen |-> << [screen EXCEPT
                               !.list = TracksOf(album),
                               !.highlighted =
                                   focus_list(TracksOf(album), <<>>, TRUE)] >>,
              queries |-> 2, raised |-> "none"]

Top(stack) == stack[Len(stack)]

Pop(stack) == SubSeq(stack, 1, Len(stack) - 1)

\* self.dismiss(result) followed by the callback's push_screen(made).
DismissAndPush(n, made) ==
    [stack |-> Pop(n.stack) \o made.screen,
     queries |-> n.queries + made.queries,
     raised |-> made.raised]

\* ArtistSearch.handle_search: search_artists (except Exception) fills the
\* list, which takes the focus.
artist_handle_search(n, po, found) ==
    LET q == Guarded(found, po, ProviderOutcomes)
    IN  [n EXCEPT
           !.queries = @ + 1,
           !.stack[Len(n.stack)] =
               [@ EXCEPT !.list = q.result,
                         !.highlighted = focus_list(q.result, <<>>, TRUE),
                         !.input_focus = FALSE]]

\* ArtistSearch.select_artist, Tuidal.album_selection
select_artist(n) ==
    LET top == Top(n.stack)
    IN  IF top.highlighted = <<>> THEN n
        ELSE DismissAndPush(n, AlbumSelectionScreen(
                                   Selected(top.list, top.highlighted)[1]))

\* ArtistSearch.action_search_or_select
artist_search_or_select(n, po, found) ==
    IF Top(n.stack).input_focus THEN artist_handle_search(n, po, found)
    ELSE select_artist(n)

\* AlbumSelection.action_back, Tuidal.album_selection_dismissed
album_action_back(n) ==
    DismissAndPush(n, [screen |-> <<ArtistSearchScreen>>, queries |-> 0,
                       raised |-> "none"])

\* AlbumSelection.action_select, Tuidal.album_selection_dismissed,
\* Tuidal.track_selection
album_action_select(n) ==
    LET top == Top(n.stack)
    IN  IF top.highlighted = <<>>
        THEN [n EXCEPT !.raised = "TypeError"]
        ELSE DismissAndPush(n, TrackSelectionScreen(
                                   Selected(top.list, top.highlighted)[1]))

\* TrackSelection.action_back, Tuidal.track_selection_dismissed
track_action_back(n) ==
    LET artist == album_artist(Top(n.stack).album[1])
        id == IF artist # <<>> THEN artist[1] ELSE -1
    IN  DismissAndPush(n, AlbumSelectionScreen(id))

----------------------------------------------------------------------------
(* Session                                                                 *)
(* A method is a function on s = [file, logged_in, oauth_calls,            *)
(* save_calls, writes, ret, raised]:                                       *)
(*   file         what the session file holds ("absent" if there is none)  *)
(*   logged_in    what session.check_login() answers                       *)
(*   oauth_calls  calls of session.login_oauth_simple() so far             *)
(*   save_calls   calls of save_session() so far                           *)
(*   writes       writes of the session file so far                        *)
(*   ret          what the last login_to_tidal() returned                  *)
(*   raised       the exception that left the method ("none" if none)      *)

\* The session file at launch: none, one the provider accepts, one it
\* reports expired, one that cannot be deserialized.
SessionFiles == {"absent", "valid", "expired", "corrupt"}

\* login_oauth_simple(): it returns, it raises TimeoutError, or it raises
\* another exception (the provider rejects the request).
OAuthOutcomes == {"ok", "timeout", "rejected"}

\* save_session_to_file(): it writes the file or raises OSError.
SaveOutcomes == {"ok", "oserror"}

already_logged_in(s) == s.logged_in

save_session(s, so) ==
    IF so = "ok"
    THEN [s EXCEPT !.save_calls = @ + 1, !.writes = @ + 1, !.file = "valid"]
    ELSE [s EXCEPT !.save_calls = @ + 1]

\* Variants of login_to_tidal: without the early return, without the save.
LoginAlwaysOAuth(s, oo, so) ==
    LET s1 == [s EXCEPT !.oauth_calls = @ + 1]
    IN  CASE oo = "ok" ->
               [save_session([s1 EXCEPT !.logged_in = TRUE], so)
                   EXCEPT !.ret = "True"]
          [] oo = "timeout" -> [s1 EXCEPT !.ret = "False"]
          [] oo = "rejected" ->
               [s1 EXCEPT !.ret = "none", !.raised = "ProviderError"]

LoginWithoutSave(s, oo, so) ==
    IF already_logged_in(s) THEN [s EXCEPT !.ret = "True"]
    ELSE
    LET s1 == [s EXCEPT !.oauth_calls = @ + 1]
    IN  CASE oo = "ok" -> [s1 EXCEPT !.logged_in = TRUE, !.ret = "True"]
          [] oo = "timeout" -> [s1 EXCEPT !.ret = "False"]
          [] oo = "rejected" ->
               [s1 EXCEPT !.ret = "none", !.raised = "ProviderError"]

\* Variant of oauth_started: the session is saved before the flow starts.
OAuthStartedAfterSave(s) ==
    [save_session(s, "ok") EXCEPT !.oauth_calls = @ + 1]

\* login_to_tidal up to its call of login_oauth_simple(), which blocks until
\* the user has confirmed the login in the browser.
oauth_started(s) == [s EXCEPT !.oauth_calls = @ + 1]

\* login_to_tidal from the end of login_oauth_simple() on.
oauth_returned(s1, oo, so) ==
    CASE oo = "ok" ->
           [save_session([s1 EXCEPT !.logged_in = TRUE], so)
               EXCEPT !.ret = "True"]
      [] oo = "timeout" -> [s1 EXCEPT !.ret = "False"]
      [] oo = "rejected" ->
           [s1 EXCEPT !.ret = "none", !.raised = "ProviderError"]

login_to_tidal(s, oo, so) ==
    IF already_logged_in(s) THEN [s EXCEPT !.ret = "True"]
    ELSE oauth_returned(oauth_started(s), oo, so)

load_from_file(s) ==
    CASE s.file = "valid" -> [s EXCEPT !.logged_in = TRUE]
      [] s.file = "expired" -> [s EXCEPT !.logged_in = FALSE]
      [] s.file = "corrupt" -> [s EXCEPT !.raised = "ValueError"]
      [] OTHER -> [s EXCEPT !.raised = "FileNotFoundError"]

create_session(s, oo, so) ==
    IF s.file # "absent" THEN load_from_file(s) ELSE login_to_tidal(s, oo, so)

----------------------------------------------------------------------------
(* State machine                                                           *)

Ctx == [w |-> player_widget, p |-> player, raised |-> "none",
        play_called |-> FALSE, load |-> <<>>]

\* The handler's effects become the state; an exception leaves what the
\* handler had assigned before it was raised.
Commit(c, op) ==
    /\ player_widget' = c.w
    /\ player' = c.p
    /\ last' = [op |-> op, raised |-> c.raised,
                play_called |-> c.play_called, load |-> c.load]

\* Variant of Running: the application survives the exception.
RunningAfterError == main.pc = "ui"

\* The handlers run while the application runs; an exception that leaves
\* a handler ends it.
Running == main.pc = "ui" /\ last.raised = "none"

NewRun(w) == [start |-> w.current_track_index, count |-> 0]

\* next_run counts the calls of action_next_track made in a row on one list.
CountNext(w) ==
    IF next_run.count >= Len(w.tracks)
    THEN [start |-> w.current_track_index, count |-> 1]
    ELSE [next_run EXCEPT !.count = @ + 1]

\* Variant of the constructor: the repeat policy starts as Repeat.NO.
InitWidgetRepeatNo(repeat) ==
    [tracks |-> <<>>, current_track_index |-> 0, repeat |-> "NO",
     player_state |-> "STOPPED", timer_running |-> FALSE, stale_timers |-> 0]

InitWidget(repeat) ==
    [tracks |-> <<>>, current_track_index |-> 0, repeat |-> repeat,
     player_state |-> "STOPPED", timer_running |-> FALSE, stale_timers |-> 0]

InitWith(repeats) ==
    /\ player_widget \in {InitWidget(r) : r \in repeats}
    /\ player = [pause |-> FALSE, loaded |-> <<>>, idle_active |-> TRUE,
                 percent_pos |-> 0]
    /\ track_selection = [tracks |-> <<>>, highlighted |-> <<>>]
    /\ last = [op |-> "init", raised |-> "none", play_called |-> FALSE,
               load |-> <<>>]
    /\ next_run = [start |-> 0, count |-> 0]
    /\ tick_pending = FALSE
    /\ session \in {[file |-> f, logged_in |-> FALSE, oauth_calls |-> 0,
                      save_calls |-> 0, writes |-> 0, ret |-> "none",
                      raised |-> "none"] : f \in SessionFiles}
    /\ main = [pc |-> "create_session", exit_code |-> <<>>,
               ui_entered |-> FALSE, launch_file |-> session.file]
    /\ key_pending = <<>>
    /\ catalog = [focus |-> "search", tab |-> "artists",
                  artists |-> <<>>, artist_hl |-> <<>>,
                  albums |-> <<>>, album_hl |-> <<>>,
                  query |-> "none", provider |-> "ok"]
    \* the variant's Tuidal.on_mount pushes the ArtistSearch screen
    /\ screen_stack = <<ArtistSearchScreen>>
    /\ nav_history = [parents |-> <<>>, restored |-> <<>>, queries |-> 0]

\* main(): session.create_session()
CreateSession ==
    /\ main.pc = "create_session"
    /\ \E oo \in OAuthOutcomes, so \in SaveOutcomes :
          /\ session' = create_session(session, oo, so)
          /\ main' = IF session'.raised # "none"
                     THEN [main EXCEPT !.pc = "exit", !.exit_code = <<1>>]
                     ELSE [main EXCEPT !.pc = "logged_in"]
    /\ UNCHANGED <<player_widget, player, track_selection, last, next_run,
                   tick_pending>>
    /\ UNCHANGED sideVars

\* Variant of RunApp: the application starts without the check.
RunAppUnchecked ==
    /\ main.pc = "logged_in"
    /\ main' = [main EXCEPT !.pc = "ui", !.ui_entered = TRUE]
    /\ UNCHANGED <<player_widget, player, track_selection, last, next_run,
                   tick_pending, session>>
    /\ UNCHANGED sideVars

\* main(): if session.already_logged_in(): app.run()
RunApp ==
    /\ main.pc = "logged_in"
    /\ already_logged_in(session)
    /\ main' = [main EXCEPT !.pc = "ui", !.ui_entered = TRUE]
    /\ UNCHANGED <<player_widget, player, track_selection, last, next_run,
                   tick_pending, session>>
    /\ UNCHANGED sideVars

\* main(): else: session.login_to_tidal(), and main() returns.
LoginAndReturn ==
    /\ main.pc = "logged_in"
    /\ ~already_logged_in(session)
    /\ \E oo \in OAuthOutcomes, so \in SaveOutcomes :
          /\ session' = login_to_tidal(session, oo, so)
          /\ main' = [main EXCEPT
                        !.pc = "exit",
                        !.exit_code = IF session'.raised # "none"
                                      THEN <<1>> ELSE <<0>>]
    /\ UNCHANGED <<player_widget, player, track_selection, last, next_run,
                   tick_pending>>
    /\ UNCHANGED sideVars

\* The user quits the application (escape) and main() returns.
Quit ==
    /\ Running
    /\ main' = [main EXCEPT !.pc = "exit", !.exit_code = <<0>>]
    /\ UNCHANGED <<player_widget, player, track_selection, last, next_run,
                   tick_pending, session>>
    /\ UNCHANGED sideVars

Init == InitWith({"TRACK_LIST"})

InitAnyRepeat == InitWith(Repeat)

\* display_tracks_of_selected_album / handle_search: a query result of n
\* tracks replaces the displayed list.
DisplayTracks ==
    /\ Running
    /\ \E n \in 0..MaxTracks :
          track_selection' = display_tracks(AlbumTracks(n))
    /\ UNCHANGED <<player_widget, player, last, next_run, tick_pending>>
    /\ UNCHANGED launchVars
    /\ UNCHANGED sideVars

\* The user moves the highlight of the track list.
Highlight ==
    /\ Running
    /\ \E h \in 0..(Len(track_selection.tracks) - 1) :
          /\ track_selection.highlighted # <<h>>
          /\ track_selection' = [track_selection EXCEPT !.highlighted = <<h>>]
    /\ UNCHANGED <<player_widget, player, last, next_run, tick_pending>>
    /\ UNCHANGED launchVars
    /\ UNCHANGED sideVars

Select ==
    /\ Running
    /\ \E o \in PlayOutcomes :
          Commit(action_select(Ctx, track_selection, o), "action_select")
    /\ next_run' = NewRun(player_widget')
    /\ UNCHANGED <<track_selection, tick_pending, session, main>>
    /\ UNCHANGED sideVars

NextTrack ==
    /\ Running
    /\ \E o \in PlayOutcomes :
          Commit(action_next_track(Ctx, o), "action_next_track")
    /\ next_run' = CountNext(player_widget)
    /\ UNCHANGED <<track_selection, tick_pending, session, main>>
    /\ UNCHANGED sideVars

PrevTrack ==
    /\ Running
    /\ \E o \in PlayOutcomes :
          Commit(action_prev_track(Ctx, o), "action_prev_track")
    /\ next_run' = NewRun(player_widget')
    /\ UNCHANGED <<track_selection, tick_pending, session, main>>
    /\ UNCHANGED sideVars

PlayPause ==
    /\ Running
    /\ Commit(action_play_pause(Ctx), "action_play_pause")
    /\ UNCHANGED <<track_selection, next_run, tick_pending, session, main>>
    /\ UNCHANGED sideVars

\* A running timer comes due: its callback is scheduled on the event loop.
TimerFires ==
    /\ Running
    /\ player_widget.timer_running \/ player_widget.stale_timers > 0
    /\ ~tick_pending
    /\ tick_pending' = TRUE
    /\ UNCHANGED <<player_widget, player, track_selection, last, next_run,
                   session, main>>
    /\ UNCHANGED sideVars

\* The scheduled callback runs, after the handlers that were ahead of it.
Tick ==
    /\ Running
    /\ tick_pending
    /\ tick_pending' = FALSE
    /\ \E o \in PlayOutcomes :
          Commit(make_progress(Ctx, o), "make_progress")
    /\ next_run' = IF continue_with_next_track(player_widget, player)
                   THEN CountNext(player_widget) ELSE next_run
    /\ UNCHANGED <<track_selection, session, main>>
    /\ UNCHANGED sideVars

\* The device plays on: the position grows and, past the end, it goes idle.
DeviceProgress ==
    /\ Running
    /\ ~player.idle_active /\ ~player.pause
    /\ player' = IF player.percent_pos < 100
                 THEN [player EXCEPT !.percent_pos = IF @ < 50 THEN 50 ELSE 100]
                 ELSE DeviceFailed(player)
    /\ UNCHANGED <<player_widget, track_selection, last, next_run,
                   tick_pending, session, main>>
    /\ UNCHANGED sideVars

----------------------------------------------------------------------------
(* The OAuth wait, interruptible                                           *)

OAuthWaits == {"oauth_in_create_session", "oauth_in_main"}

\* login_to_tidal, called by create_session (no session file) or by main(),
\* has started the OAuth flow and blocks in login_oauth_simple().
OAuthWait ==
    /\ ~already_logged_in(session)
    /\ \/ /\ main.pc = "create_session"
          /\ session.file = "absent"
          /\ main' = [main EXCEPT !.pc = "oauth_in_create_session"]
       \/ /\ main.pc = "logged_in"
          /\ main' = [main EXCEPT !.pc = "oauth_in_main"]
    /\ session' = oauth_started(session)
    /\ UNCHANGED <<player_widget, player, track_selection, last, next_run,
                   tick_pending>>
    /\ UNCHANGED sideVars

\* login_oauth_simple() ends; login_to_tidal and its caller go on.
OAuthReturns ==
    /\ main.pc \in OAuthWaits
    /\ \E oo \in OAuthOutcomes, so \in SaveOutcomes :
          /\ session' = oauth_returned(session, oo, so)
          /\ main' = IF session'.raised # "none"
                     THEN [main EXCEPT !.pc = "exit", !.exit_code = <<1>>]
                     ELSE IF main.pc = "oauth_in_create_session"
                     THEN [main EXCEPT !.pc = "logged_in"]
                     ELSE [main EXCEPT !.pc = "exit", !.exit_code = <<0>>]
    /\ UNCHANGED <<player_widget, player, track_selection, last, next_run,
                   tick_pending>>
    /\ UNCHANGED sideVars

\* The user aborts the process during the wait: KeyboardInterrupt is no
\* TimeoutError, it leaves login_to_tidal and main().
Abort ==
    /\ main.pc \in OAuthWaits
    /\ session' = [session EXCEPT !.raised = "KeyboardInterrupt"]
    /\ main' = [main EXCEPT !.pc = "exit", !.exit_code = <<1>>]
    /\ UNCHANGED <<player_widget, player, track_selection, last, next_run,
                   tick_pending>>
    /\ UNCHANGED sideVars

----------------------------------------------------------------------------
(* A skip key waiting for its handler                                      *)

\* The user presses ">": the key waits for its handler.  finish_tick tells
\* whether a timer callback is waiting too that will find the current track
\* finished.
PressNext ==
    /\ Running
    /\ key_pending = <<>>
    /\ key_pending' =
          << [finish_tick |->
                 tick_pending
                 /\ continue_with_next_track(player_widget, player)] >>
    /\ UNCHANGED <<player_widget, player, track_selection, last, next_run,
                   tick_pending, session, main>>
    /\ UNCHANGED browseVars

\* The handler of the waiting key runs: Tuidal.action_next_track.
HandleNext ==
    /\ Running
    /\ key_pending # <<>>
    /\ key_pending' = <<>>
    /\ \E o \in PlayOutcomes :
          Commit(action_next_track(Ctx, o), "action_next_track")
    /\ next_run' = CountNext(player_widget)
    /\ UNCHANGED <<track_selection, tick_pending, session, main>>
    /\ UNCHANGED browseVars

----------------------------------------------------------------------------
(* MainScreen: search and the three lists                                  *)

BrowseCtx == [cat |-> catalog, ts |-> track_selection, raised |-> "none"]

BrowseCommit(b, op) ==
    /\ catalog' = b.cat
    /\ track_selection' = b.ts
    /\ last' = [op |-> op, raised |-> b.raised, play_called |-> FALSE,
                load |-> <<>>]

\* MainScreen.action_new_search
NewSearch ==
    /\ Running
    /\ catalog.focus # "search"
    /\ catalog' = [catalog EXCEPT !.focus = "search"]
    /\ UNCHANGED <<player_widget, player, track_selection, last, next_run,
                   tick_pending, session, main, key_pending, screen_stack,
                   nav_history>>

FocusTab ==
    /\ Running
    /\ \E tab \in Lists :
          /\ catalog.focus # tab
          /\ BrowseCommit(action_focus_tab(BrowseCtx, tab), "action_focus_tab")
    /\ UNCHANGED <<player_widget, player, next_run, tick_pending, session,
                   main, key_pending, screen_stack, nav_history>>

\* MainScreen.action_search_or_select with the focus in the search input
Search ==
    /\ Running
    /\ catalog.focus = "search"
    /\ \E po \in ProviderOutcomes, na \in 0..MaxArtists,
          albums \in AlbumResults, nt \in 0..MaxTracks :
          BrowseCommit(handle_search(BrowseCtx, po, ArtistsFound(na), albums,
                                     AlbumTracks(nt)),
                       "handle_search")
    /\ UNCHANGED <<player_widget, player, next_run, tick_pending, session,
                   main, key_pending, screen_stack, nav_history>>

\* MainScreen.action_search_or_select with the focus in the artist list
DisplayAlbumsOfSelectedArtist ==
    /\ Running
    /\ catalog.focus = "artists"
    /\ LET artist == Selected(catalog.artists, catalog.artist_hl)
       IN  \E po \in ProviderOutcomes,
              found \in IF artist = <<>> THEN AlbumResults
                        ELSE {AlbumsOf(artist[1])} :
              BrowseCommit(
                  display_albums_of_selected_artist(BrowseCtx, po, found),
                  "display_albums_of_selected_artist")
    /\ UNCHANGED <<player_widget, player, next_run, tick_pending, session,
                   main, key_pending, screen_stack, nav_history>>

\* MainScreen.action_search_or_select with the focus in the album list
DisplayTracksOfSelectedAlbum ==
    /\ Running
    /\ catalog.focus = "albums"
    /\ LET album == Selected(catalog.albums, catalog.album_hl)
       IN  \E po \in ProviderOutcomes,
              found \in IF album = <<>>
                        THEN {AlbumTracks(n) : n \in 0..MaxTracks}
                        ELSE {TracksOf(album[1])} :
              BrowseCommit(
                  display_tracks_of_selected_album(BrowseCtx, po, found),
                  "display_tracks_of_selected_album")
    /\ UNCHANGED <<player_widget, player, next_run, tick_pending, session,
                   main, key_pending, screen_stack, nav_history>>

\* The user moves the highlight of the artist list or of the album list.
HighlightArtist ==
    /\ Running
    /\ catalog.focus = "artists"
    /\ \E h \in 0..(Len(catalog.artists) - 1) :
          /\ catalog.artist_hl # <<h>>
          /\ catalog' = [catalog EXCEPT !.artist_hl = <<h>>]
    /\ UNCHANGED <<player_widget, player, track_selection, last, next_run,
                   tick_pending, session, main, key_pending, screen_stack,
                   nav_history>>

HighlightAlbum ==
    /\ Running
    /\ catalog.focus = "albums"
    /\ \E h \in 0..(Len(catalog.albums) - 1) :
          /\ catalog.album_hl # <<h>>
          /\ catalog' = [catalog EXCEPT !.album_hl = <<h>>]
    /\ UNCHANGED <<player_widget, player, track_selection, last, next_run,
                   tick_pending, session, main, key_pending, screen_stack,
                   nav_history>>

----------------------------------------------------------------------------
(* The screens of the screen-based variant                                 *)
(* nav_history keeps what the variant's app discards: parents, the screens *)
(* that selections have replaced (the innermost last); restored, the       *)
(* parent a back step has just gone back to; queries, the provider calls   *)
(* of the last step.                                                       *)

NavCtx == [stack |-> screen_stack, queries |-> 0, raised |-> "none"]

NavCommit(n, op) ==
    /\ screen_stack' = n.stack
    /\ last' = [op |-> op, raised |-> n.raised, play_called |-> FALSE,
                load |-> <<>>]

\* A step that stays on the screen, one that replaces it by a child, one
\* that goes back to the parent.
Stayed(n) == [nav_history EXCEPT !.restored = <<>>, !.queries = n.queries]

Replaced(n) ==
    [parents |-> Append(nav_history.parents, Top(screen_stack)),
     restored |-> <<>>, queries |-> n.queries]

WentBack(n) ==
    IF nav_history.parents = <<>> THEN Stayed(n)
    ELSE [parents |-> Pop(nav_history.parents),
          restored |-> <<Top(nav_history.parents)>>,
          queries |-> n.queries]

OnScreen(kind) ==
    /\ Running
    /\ screen_stack # <<>>
    /\ Top(screen_stack).kind = kind

ArtistSearchOrSelect ==
    /\ OnScreen("ArtistSearch")
    /\ \E po \in ProviderOutcomes, na \in 0..MaxArtists :
          LET n == artist_search_or_select(NavCtx, po, ArtistsFound(na))
          IN  /\ NavCommit(n, "action_search_or_select")
              /\ nav_history' =
                    IF Top(screen_stack).input_focus
                       \/ Top(screen_stack).highlighted = <<>>
                    THEN Stayed(n) ELSE Replaced(n)
    /\ UNCHANGED <<player_widget, player, track_selection, next_run,
                   tick_pending, session, main, key_pending, catalog>>

\* ArtistSearch.action_new_search
ArtistNewSearch ==
    /\ OnScreen("ArtistSearch")
    /\ ~Top(screen_stack).input_focus
    /\ screen_stack' =
          [screen_stack EXCEPT ![Len(screen_stack)].input_focus = TRUE]
    /\ nav_history' = Stayed(NavCtx)
    /\ UNCHANGED <<player_widget, player, track_selection, last, next_run,
                   tick_pending, session, main, key_pending, catalog>>

\* The user moves the highlight of the list that has the focus.
ScreenHighlight ==
    /\ Running
    /\ screen_stack # <<>>
    /\ ~Top(screen_stack).input_focus
    /\ \E h \in 0..(Len(Top(screen_stack).list) - 1) :
          /\ Top(screen_stack).highlighted # <<h>>
          /\ screen_stack' =
                [screen_stack EXCEPT ![Len(screen_stack)].highlighted = <<h>>]
    /\ nav_history' = Stayed(NavCtx)
    /\ UNCHANGED <<player_widget, player, track_selection, last, next_run,
                   tick_pending, session, main, key_pending, catalog>>

AlbumBack ==
    /\ OnScreen("AlbumSelection")
    /\ LET n == album_action_back(NavCtx)
       IN  NavCommit(n, "action_back") /\ nav_history' = WentBack(n)
    /\ UNCHANGED <<player_widget, player, track_selection, next_run,
                   tick_pending, session, main, key_pending, catalog>>

AlbumSelect ==
    /\ OnScreen("AlbumSelection")
    /\ LET n == album_action_select(NavCtx)
       IN  /\ NavCommit(n, "action_select")
           /\ nav_history' =
                 IF Top(screen_stack).highlighted = <<>>
                 THEN Stayed(n) ELSE Replaced(n)
    /\ UNCHANGED <<player_widget, player, track_selection, next_run,
                   tick_pending, session, main, key_pending, catalog>>

TrackBack ==
    /\ OnScreen("TrackSelection")
    /\ LET n == track_action_back(NavCtx)
       IN  NavCommit(n, "action_back") /\ nav_history' = WentBack(n)
    /\ UNCHANGED <<player_widget, player, track_selection, next_run,
                   tick_pending, session, main, key_pending, catalog>>

Next ==
    \/ CreateSession
    \/ RunApp
    \/ LoginAndReturn
    \/ Quit
    \/ TimerFires
    \/ DisplayTracks
    \/ Highlight
    \/ Select
    \/ NextTrack
    \/ PrevTrack
    \/ PlayPause
    \/ Tick
    \/ DeviceProgress

TypeOK ==
    /\ player_widget.repeat \in Repeat
    /\ player_widget.player_state \in State
    /\ player_widget.timer_running \in BOOLEAN
    /\ player_widget.stale_timers \in Nat
    /\ player_widget.current_track_index \in Int
    /\ Len(player_widget.tracks) <= MaxTracks
    /\ player.percent_pos \in PercentPos
    /\ Len(player.loaded) <= 1
    /\ Len(track_selection.highlighted) <= 1
    /\ next_run.count \in Nat
    /\ tick_pending \in BOOLEAN
    /\ session.file \in SessionFiles
    /\ session.logged_in \in BOOLEAN
    /\ session.ret \in {"none", "True", "False"}
    /\ main.pc \in {"create_session", "logged_in", "ui", "exit"}
                    \cup OAuthWaits
    /\ Len(main.exit_code) <= 1
    /\ main.ui_entered \in BOOLEAN
    /\ main.launch_file \in SessionFiles
    /\ Len(key_pending) <= 1
    /\ catalog.focus \in Lists \cup {"search"}
    /\ catalog.tab \in Lists
    /\ catalog.provider \in ProviderOutcomes
    /\ Len(catalog.artists) <= MaxArtists
    /\ Len(catalog.artist_hl) <= 1
    /\ Len(catalog.album_hl) <= 1
    /\ Len(screen_stack) <= 1
    /\ Len(nav_history.restored) <= 1
    /\ nav_history.queries \in Nat

\* The program: the repeat policy is the one __init__ sets.
Spec == Init /\ [][Next]_vars

\* The widget under each value of its repeat attribute.
SpecAnyRepeat == InitAnyRepeat /\ [][Next]_vars

\* The program with the OAuth wait as a state of its own.
AbortNext == Next \/ OAuthWait \/ OAuthReturns \/ Abort

SpecAbort == Init /\ [][AbortNext]_vars

\* The player with a skip key that waits for its handler; the keys are
\* handled in the order pressed.
RaceNext ==
    \/ CreateSession
    \/ RunApp
    \/ TimerFires
    \/ Tick
    \/ DeviceProgress
    \/ PressNext
    \/ HandleNext
    \/ (key_pending = <<>> /\ DisplayTracks)
    \/ (key_pending = <<>> /\ Highlight)
    \/ (key_pending = <<>> /\ Select)
    \/ (key_pending = <<>> /\ PrevTrack)
    \/ (key_pending = <<>> /\ PlayPause)

SpecRace == Init /\ [][RaceNext]_vars

\* MainScreen's search and lists.
BrowseNext ==
    \/ CreateSession
    \/ RunApp
    \/ NewSearch
    \/ FocusTab
    \/ Search
    \/ DisplayAlbumsOfSelectedArtist
    \/ DisplayTracksOfSelectedAlbum
    \/ HighlightArtist
    \/ HighlightAlbum
    \/ Highlight

SpecBrowse == Init /\ [][BrowseNext]_vars

\* MainScreen's search and lists while a selected track plays.
BrowsePlayingNext ==
    \/ CreateSession
    \/ RunApp
    \/ NewSearch
    \/ FocusTab
    \/ Search
    \/ DisplayAlbumsOfSelectedArtist
    \/ DisplayTracksOfSelectedAlbum
    \/ Highlight
    \/ Select
    \/ TimerFires

SpecBrowsePlaying == Init /\ [][BrowsePlayingNext]_vars

\* The tick when every start of the device succeeds.
TickStarts == Tick /\ last'.raised = "none"

\* Unattended playback: the user displays a list, highlights and selects
\* once and then leaves the keyboard; from then on only the timer, its
\* callback and the device act.
PlaybackNext ==
    \/ CreateSession
    \/ RunApp
    \/ (player_widget.player_state = "STOPPED" /\ DisplayTracks)
    \/ (player_widget.player_state = "STOPPED" /\ Highlight)
    \/ (player_widget.player_state = "STOPPED" /\ Select)
    \/ TimerFires
    \/ TickStarts
    \/ DeviceProgress

\* set_interval(1, ...) comes due every second while resumed, the message
\* loop runs each scheduled callback, and the device plays each started
\* track to its end.
PlaybackFairness ==
    /\ WF_vars(TimerFires)
    /\ WF_vars(TickStarts)
    /\ WF_vars(DeviceProgress)

SpecPlayback == Init /\ [][PlaybackNext]_vars /\ PlaybackFairness

\* The screens of the screen-based variant.
ScreensNext ==
    \/ CreateSession
    \/ RunApp
    \/ ArtistSearchOrSelect
    \/ ArtistNewSearch
    \/ ScreenHighlight
    \/ AlbumBack
    \/ AlbumSelect
    \/ TrackBack

SpecScreens == Init /\ [][ScreensNext]_vars

----------------------------------------------------------------------------
(* Properties                                                              *)

Tracks == player_widget.tracks

Cursor == player_widget.current_track_index

\* C1: under TRACK_LIST on a non-empty list, len(tracks) calls of
\* action_next_track in a row bring the cursor back to the index the run
\* started at, so current_track is the starting track again.
NextCycleReturnsToStart ==
    (/\ player_widget.repeat = "TRACK_LIST"
     /\ Len(Tracks) > 0
     /\ next_run.count = Len(Tracks))
    => /\ Cursor = next_run.start
       /\ current_track(player_widget) = <<Tracks[next_run.start + 1]>>

NextCycleCompleted ==
    /\ player_widget.repeat = "TRACK_LIST"
    /\ Len(Tracks) >= 2
    /\ next_run.count = Len(Tracks)
    /\ next_run.start >= 1
    /\ last.op = "action_next_track"
    /\ last.raised = "none"

\* C2: under NO with the cursor at the last index, action_next_track hands
\* no track to the device and leaves the cursor at the last index, so
\* current_track is still the last track.
NoRepeatNextAtEndKeepsLast ==
    [][(/\ player_widget.repeat = "NO"
        /\ Len(Tracks) > 0
        /\ Cursor = Len(Tracks) - 1
        /\ NextTrack)
       => /\ last'.load = <<>>
          /\ player_widget'.current_track_index = Len(Tracks) - 1
          /\ current_track(player_widget') = <<Tracks[Len(Tracks)]>>]_vars

\* C3: under NO with the cursor at 0, action_prev_track does not wrap: it
\* hands no track to the device, the cursor stays 0 and current_track is
\* still the first track.
NoRepeatPrevAtStartKeepsFirst ==
    [][(/\ player_widget.repeat = "NO"
        /\ Len(Tracks) > 0
        /\ Cursor = 0
        /\ PrevTrack)
       => /\ last'.load = <<>>
          /\ player_widget'.current_track_index = 0
          /\ current_track(player_widget') = <<Tracks[1]>>]_vars

\* C4: under TRACK neither action_next_track nor action_prev_track changes
\* the cursor or the list, so current_track is the same track, and a call
\* that the device completes has loaded that track again.
RepeatTrackKeepsCursor ==
    [][(player_widget.repeat = "TRACK" /\ (NextTrack \/ PrevTrack))
       => /\ player_widget'.current_track_index = Cursor
          /\ player_widget'.tracks = Tracks
          /\ current_track(player_widget') = current_track(player_widget)
          /\ (last'.raised = "none"
                => /\ last'.load = current_track(player_widget)
                   /\ last'.load # <<>>
                   /\ player'.loaded = current_track(player_widget))]_vars

RepeatTrackReplayed ==
    /\ player_widget.repeat = "TRACK"
    /\ Len(Tracks) >= 2
    /\ last.op = "action_prev_track"
    /\ last.raised = "none"
    /\ Cursor = 0
    /\ player.loaded = <<Tracks[1]>>

\* C5: under TRACK_LIST on a non-empty list the new cursor is
\* (cursor + 1) mod len after action_next_track and (cursor - 1) mod len
\* after action_prev_track, wrapping at both ends, and the track at the new
\* cursor is the one the device is given.
TrackListWrapsBothWays ==
    [][(player_widget.repeat = "TRACK_LIST" /\ Len(Tracks) > 0)
       => /\ NextTrack =>
               /\ player_widget'.current_track_index
                    = (Cursor + 1) % Len(Tracks)
               /\ (Cursor = Len(Tracks) - 1
                     => player_widget'.current_track_index = 0)
          /\ PrevTrack =>
               /\ player_widget'.current_track_index
                    = (Cursor - 1) % Len(Tracks)
               /\ (Cursor = 0 => player_widget'.current_track_index
                                   = Len(Tracks) - 1)
          /\ (NextTrack \/ PrevTrack) =>
               /\ player_widget'.tracks = Tracks
               /\ (last'.raised = "none" =>
                     player'.loaded
                       = <<Tracks[player_widget'.current_track_index + 1]>>)]_vars

WrappedBackToLastTrack ==
    /\ player_widget.repeat = "TRACK_LIST"
    /\ Len(Tracks) = 3
    /\ last.op = "action_prev_track"
    /\ last.raised = "none"
    /\ Cursor = 2
    /\ player.loaded = <<Tracks[3]>>

\* C6: whenever the active list is non-empty the cursor satisfies
\* 0 <= current_track_index < len(tracks), under every repeat policy.
CursorInRange ==
    Len(Tracks) > 0 => (0 <= Cursor /\ Cursor < Len(Tracks))

\* C7: on an empty active list action_next_track and action_prev_track
\* hand no track to the device, raise nothing and leave the cursor, the list
\* and the playback state unchanged, and current_track is None.
EmptyListSkipIsNoOp ==
    [][(Len(Tracks) = 0 /\ (NextTrack \/ PrevTrack))
       => /\ current_track(player_widget) = <<>>
          /\ last'.load = <<>>
          /\ last'.raised = "none"
          /\ player_widget'.current_track_index = Cursor
          /\ player_widget'.tracks = Tracks
          /\ player_widget'.player_state = player_widget.player_state]_vars

\* C8: play() is never invoked while the active track list is empty.
NoPlayOnEmptyList ==
    ~(last.play_called /\ Len(Tracks) = 0)

\* C9: after every operation, a failed play() included, the progress timer
\* is running if and only if the playback state is PLAYING.
TimerRunsIffPlaying ==
    last.raised \in {"none", "PlayerError"}
    => (player_widget.timer_running
          <=> (player_widget.player_state = "PLAYING"))

\* C10: the timer is never running while the device's pause flag is set,
\* and the pause flag is clear whenever the state is PLAYING.
PauseFlagAndTimerInLockstep ==
    /\ ~(player_widget.timer_running /\ player.pause)
    /\ (player_widget.player_state = "PLAYING" => ~player.pause)

\* C11: the play/pause toggle in state STOPPED leaves the state STOPPED and
\* the timer paused; from STOPPED the state becomes PLAYING only by a play()
\* that handed a track to the device and completed.
ToggleInStoppedStaysStopped ==
    [][(player_widget.player_state = "STOPPED")
       => /\ PlayPause =>
               /\ player_widget'.player_state = "STOPPED"
               /\ ~player_widget'.timer_running
          /\ (player_widget'.player_state = "PLAYING")
               => (last'.load # <<>> /\ last'.raised = "none")]_vars

\* C12: make_progress run while the state is not PLAYING changes nothing of
\* the widget (cursor, list, state, timer) nor of the device and hands no
\* track to the device, whatever the device reports.
TickWhileNotPlayingIsNoOp ==
    [][(Tick /\ player_widget.player_state # "PLAYING")
       => /\ player_widget' = player_widget
          /\ player' = player
          /\ ~last'.play_called
          /\ last'.load = <<>>
          /\ last'.raised = "none"]_vars

TickedWhilePausedAndFinished ==
    /\ last.op = "make_progress"
    /\ player_widget.player_state = "PAUSED"
    /\ track_finished(player)
    /\ Len(Tracks) >= 2
    /\ ~tick_pending

\* The cursor one step in direction Next under the widget's repeat policy.
AdvancedCursor ==
    IF player_widget.repeat = "TRACK" THEN Cursor
    ELSE IF player_widget.repeat = "NO" THEN Cursor + 1
    ELSE (Cursor + 1) % Len(Tracks)

\* C13: make_progress in state PLAYING with the device idle or at 100%
\* moves the cursor one step Next under the repeat policy and, when that
\* yields a track and the device starts it, the device holds the new current
\* track, the state is PLAYING and the timer runs; with the device not
\* finished it changes neither the widget nor the device.
TickAdvancesOnlyWhenFinished ==
    [][(Tick /\ player_widget.player_state = "PLAYING")
       => /\ (track_finished(player) /\ Len(Tracks) > 0) =>
               /\ player_widget'.current_track_index = AdvancedCursor
               /\ player_widget'.tracks = Tracks
               /\ (current_track(player_widget') = <<>>
                     => last'.load = <<>>)
               /\ (last'.raised = "none" =>
                     /\ player'.loaded = current_track(player_widget')
                     /\ player'.loaded # <<>>
                     /\ ~player'.idle_active
                     /\ player_widget'.player_state = "PLAYING"
                     /\ player_widget'.timer_running)
          /\ ~track_finished(player) =>
               /\ player_widget' = player_widget
               /\ player' = player
               /\ last'.load = <<>>]_vars

TickStartedNextTrack ==
    /\ Len(Tracks) >= 2
    /\ last.op = "make_progress"
    /\ last.raised = "none"
    /\ last.load = <<Tracks[2]>>
    /\ Cursor = 1
    /\ player.loaded = <<Tracks[2]>>
    /\ player_widget.player_state = "PLAYING"
    /\ player_widget.timer_running

\* C14: when a skip or a track-finish tick under NO moves the cursor off the
\* list, so that there is no track to play, the state becomes STOPPED, the
\* timer is stopped and no track is handed to the device.
ExhaustedListStops ==
    [][(/\ player_widget.repeat = "NO"
        /\ Len(Tracks) > 0
        /\ \/ NextTrack
           \/ PrevTrack
           \/ (Tick /\ continue_with_next_track(player_widget, player))
        /\ current_track(player_widget') = <<>>)
       => /\ player_widget'.player_state = "STOPPED"
          /\ ~player_widget'.timer_running
          /\ last'.load = <<>>]_vars

\* C15: after a play() in which the device failed to start the track the
\* playback state is STOPPED, whatever it was before.
FailedStartLeavesStopped ==
    last.raised = "PlayerError"
    => player_widget.player_state = "STOPPED"

\* A call of a Session method in the current state leaves the login and the
\* session file alone: no OAuth flow, no save, no write.
OnlyChecks(after) ==
    /\ after.oauth_calls = session.oauth_calls
    /\ after.save_calls = session.save_calls
    /\ after.writes = session.writes
    /\ after.file = session.file
    /\ after.raised = "none"

\* C16: while the provider reports the session valid, login_to_tidal and
\* create_session only check: they start no OAuth flow and do not write the
\* session file; a run launched with a valid stored session never does
\* either.
ValidSessionIsOnlyChecked ==
    /\ (main.launch_file = "valid" /\ main.pc # "create_session")
         => (session.oauth_calls = 0 /\ session.writes = 0
             /\ session.save_calls = 0 /\ session.file = "valid")
    /\ \A oo \in OAuthOutcomes, so \in SaveOutcomes :
         /\ already_logged_in(session)
              => /\ OnlyChecks(login_to_tidal(session, oo, so))
                 /\ login_to_tidal(session, oo, so).ret = "True"
         /\ (session.file = "valid"
               \/ (session.file = "absent" /\ already_logged_in(session)))
              => /\ OnlyChecks(create_session(session, oo, so))
                 /\ already_logged_in(create_session(session, oo, so))

StoredSessionAccepted ==
    /\ main.launch_file = "valid"
    /\ main.pc = "ui"
    /\ already_logged_in(session)
    /\ session.oauth_calls = 0

\* C17: a launch without a usable stored session (file absent or expired)
\* runs the interactive login and, when that login succeeds, enters the UI
\* in the same run.
LoginFallbackEntersUi ==
    (main.pc = "exit" /\ main.launch_file \in {"absent", "expired"})
    => /\ session.oauth_calls >= 1
       /\ (already_logged_in(session) => main.ui_entered)

\* C18: when the interactive login has failed and the UI was not started,
\* the process ends with a non-zero exit code.
FailedLoginExitsNonZero ==
    (/\ main.pc = "exit"
     /\ ~main.ui_entered
     /\ session.oauth_calls >= 1
     /\ ~already_logged_in(session))
    => main.exit_code # <<0>>

\* C19: when the OAuth login has failed, login_to_tidal has returned False
\* (no exception has left it), the session is not logged in and the session
\* file is as it was at launch.
FailedLoginReturnsFalse ==
    (session.oauth_calls >= 1 /\ ~already_logged_in(session))
    => /\ session.ret = "False"
       /\ session.raised = "none"
       /\ session.file = main.launch_file
       /\ session.writes = 0

\* C20: a step in which the OAuth login succeeds also calls save_session
\* before login_to_tidal returns True (and the file then holds the session
\* unless the write raised OSError); the session file changes in no other
\* step.
SuccessfulLoginIsSaved ==
    [][/\ (session'.oauth_calls > session.oauth_calls
             /\ already_logged_in(session'))
         => /\ session'.save_calls = session.save_calls + 1
            /\ session'.ret = "True"
            /\ (session'.writes > session.writes => session'.file = "valid")
       /\ (session'.writes # session.writes \/ session'.file # session.file)
         => /\ session'.oauth_calls = session.oauth_calls + 1
            /\ already_logged_in(session')
            /\ ~already_logged_in(session)
            /\ session'.save_calls = session.save_calls + 1
            /\ session'.writes = session.writes + 1]_vars

LoginSavedToFile ==
    /\ main.launch_file = "absent"
    /\ session.oauth_calls = 1
    /\ already_logged_in(session)
    /\ session.ret = "True"
    /\ session.save_calls = 1
    /\ session.writes = 1
    /\ session.file = "valid"

\* C21: a launch whose session file is absent or cannot be deserialized
\* does not crash: no exception of the load leaves create_session, and as
\* long as no login has run the session counts as not logged in.
UnusableSessionFileIsNoCrash ==
    (main.launch_file \in {"absent", "corrupt"} /\ main.pc # "create_session")
    => /\ session.raised \notin {"ValueError", "FileNotFoundError"}
       /\ (session.oauth_calls = 0 => ~already_logged_in(session))

\* C22: the UI has been entered only in runs whose session the provider
\* reports valid; without a valid session the UI is never entered.
UiOnlyWithValidSession ==
    (main.ui_entered \/ main.pc = "ui") => already_logged_in(session)

UiEnteredAfterLogin ==
    /\ main.ui_entered
    /\ main.pc = "ui"
    /\ main.launch_file = "absent"
    /\ session.oauth_calls = 1
    /\ already_logged_in(session)

\* C23: while the OAuth flow waits, and after the process was aborted
\* during the wait, nothing has been written: save_session was not called
\* and the session file is the one found at launch.
NoWriteBeforeOAuthReturns ==
    (main.pc \in OAuthWaits \/ session.raised = "KeyboardInterrupt")
    => /\ session.save_calls = 0
       /\ session.writes = 0
       /\ session.file = main.launch_file

AbortedDuringOAuthWait ==
    /\ main.pc = "exit"
    /\ session.raised = "KeyboardInterrupt"
    /\ session.oauth_calls >= 1
    /\ session.file = main.launch_file

\* C24: when the provider call of a catalog query has failed, no exception
\* has left the UI action, the queried list is empty, and each of the three
\* queries turns that failure into an empty result.
ProviderFailureYieldsEmptyList ==
    catalog.provider # "ok"
    => /\ last.raised = "none"
       /\ catalog.query \in {"search", "albums"} => catalog.albums = <<>>
       /\ catalog.query \in {"search", "tracks"}
            => track_selection.tracks = <<>>
       /\ catalog.query = "search" => catalog.artists = <<>>
       /\ \A q \in {search_artists(ArtistsFound(MaxArtists), catalog.provider),
                    search_albums(AlbumsOf(MaxArtists), catalog.provider),
                    search_tracks(AlbumTracks(MaxTracks), catalog.provider)} :
            q = [result |-> <<>>, raised |-> "none"]

\* C25: after a back step the screen on top is the parent as it was when
\* the selection replaced it, with the list it had, and the step has made
\* no provider call.
BackRestoresParentWithoutQuery ==
    nav_history.restored # <<>>
    => /\ screen_stack # <<>>
       /\ Top(screen_stack).kind = nav_history.restored[1].kind
       /\ Top(screen_stack).list = nav_history.restored[1].list
       /\ nav_history.queries = 0

\* C26: while the UI runs the screen stack is not empty and its bottom
\* screen is the ArtistSearch screen.
RootArtistSearchStaysAtBottom ==
    main.pc = "ui"
    => /\ screen_stack # <<>>
       /\ screen_stack[1].kind = "ArtistSearch"

OneAdvancePerTrackEnd ==
    [][/\ (/\ HandleNext
           /\ key_pending # <<>>
           /\ key_pending[1].finish_tick
           /\ ~tick_pending
           /\ last.op = "make_progress"
           /\ last.play_called)
         => Cursor' = Cursor
       /\ (/\ Tick
           /\ last.op = "action_next_track"
           /\ player.loaded # <<>>
           /\ player.percent_pos = 0
           /\ ~player.idle_active)
         => Cursor' = Cursor]_vars

\* C29: a back step from a track list leads to the album list of the
\* artist whose album list the album was selected from.
TrackBackReturnsToBrowsedArtist ==
    (nav_history.restored # <<>>
       /\ nav_history.restored[1].kind = "AlbumSelection")
    => /\ screen_stack # <<>>
       /\ Top(screen_stack).kind = "AlbumSelection"
       /\ Top(screen_stack).artist = nav_history.restored[1].artist

\* C30: selecting entry h of the n displayed tracks makes the displayed
\* tracks h..n-1, in display order, the active list and sets the cursor to
\* 0: the current track is the highlighted one, and going on from the last
\* active track leads back to it.
SelectPlaysFromHighlighted ==
    [][(Select /\ track_selection.highlighted # <<>>)
        => LET h == track_selection.highlighted[1]
               shown == track_selection.tracks
               n == Len(shown)
               w == player_widget'
           IN  /\ Len(w.tracks) = n - h
               /\ \A i \in 1..(n - h) : w.tracks[i] = shown[h + i]
               /\ w.current_track_index = 0
               /\ current_track(w) = <<shown[h + 1]>>
               /\ current_track(
                      [w EXCEPT !.current_track_index =
                           NextTrackIndex(w.repeat, n - h - 1, n - h)])
                    = <<shown[h + 1]>>]_vars

SelectedFromSecondEntry ==
    /\ last.op = "action_select"
    /\ last.raised = "none"
    /\ track_selection.highlighted = <<1>>
    /\ Len(track_selection.tracks) = MaxTracks
    /\ Len(Tracks) = MaxTracks - 1
    /\ Cursor = 0
    /\ current_track(player_widget) = <<track_selection.tracks[2]>>

RunningTimers ==
    (IF player_widget.timer_running THEN 1 ELSE 0) + player_widget.stale_timers

\* C32: at most one progress timer is running in every reachable state: no
\* timer is replaced while it runs, so one second yields at most one tick.
AtMostOneTimerRuns == RunningTimers <= 1

\* A tick of the running timer started the next track: play() replaced the
\* timer that had just come due, and exactly one timer runs.
TimerReplacedByPlay ==
    /\ last.op = "make_progress"
    /\ last.play_called
    /\ last.raised = "none"
    /\ player_widget.player_state = "PLAYING"
    /\ RunningTimers = 1

\* C33: the repeat policy is TRACK_LIST in every reachable state of a run:
\* the constructor sets it and no handler assigns it.
RepeatIsAlwaysTrackList == player_widget.repeat = "TRACK_LIST"

\* The previous-track handler wrapped from the first track to the last one
\* of a list of at least two, which only the TRACK_LIST branch does.
PrevWrappedUnderTrackList ==
    /\ last.op = "action_prev_track"
    /\ last.raised = "none"
    /\ Len(player_widget.tracks) >= 2
    /\ player_widget.current_track_index = Len(player_widget.tracks) - 1
    /\ player_widget.repeat = "TRACK_LIST"

\* The tick started track t.
StartedByTick(t) ==
    /\ last.op = "make_progress"
    /\ last.play_called
    /\ last.load = <<t>>
    /\ player_widget.player_state = "PLAYING"

\* C34: in unattended playback under TRACK_LIST, where every start succeeds,
\* every track ends and ticks are delivered, playback never stops: once
\* Playing the state stays Playing, every tick finds it Playing, every tick
\* that starts a track starts the successor (cyclically) in the unchanged
\* list, and every track of the list is started by a tick again and again.
PlaybackNeverStops ==
    /\ [][player_widget.player_state = "PLAYING"
            => player_widget'.player_state = "PLAYING"]_vars
    /\ [](tick_pending => player_widget.player_state = "PLAYING")
    /\ [][(TickStarts /\ last'.play_called)
            => /\ Tracks' = Tracks
               /\ Cursor' = (Cursor + 1) % Len(Tracks)
               /\ last'.load = <<Tracks[Cursor' + 1]>>]_vars
    /\ \A t \in 1..MaxTracks :
          (/\ player_widget.player_state = "PLAYING"
           /\ \E i \in 1..Len(Tracks) : Tracks[i] = t)
            ~> StartedByTick(t)

\* Unattended, the list of at least two tracks was played to its end and a
\* tick started its first track again.
TickWrappedToFirstTrack ==
    /\ last.op = "make_progress"
    /\ last.play_called
    /\ last.raised = "none"
    /\ Len(Tracks) >= 2
    /\ Cursor = 0
    /\ last.load = <<Tracks[1]>>
    /\ player_widget.player_state = "PLAYING"

====
